---- MODULE Spec2Model ----
(***************************************************************************)
(* Model of backend/events/index.py: the serverless handler of the         *)
(* "events" resource.  One invocation of handler() is one step: the        *)
(* handler is synchronous and issues a single SQL statement.               *)
(***************************************************************************)
EXTENDS Integers, Sequences, FiniteSets, TLC

\* Largest id the table's key generator hands out in the model.
MaxId == 2

\* Python's None / SQL NULL for the text columns and wire fields.
None == "None"
\* SQL NULL of the event_date column (days are numbered from 1).
NullDate == 0

VARIABLES
    table,        \* the events table: id -> row
    nextId,       \* next key the storage assigns
    dateType,     \* type of the event_date column: "date" or "timestamp"
    notNull,      \* whether title, event_date, event_type are NOT NULL
    request,      \* the event of the last invocation
    response,     \* what the last invocation returned
    raised,       \* whether an exception escaped the last invocation
    connOpened,   \* connections the last invocation opened
    connClosed,   \* connections the last invocation closed
    statements,   \* SQL statements the last invocation issued
    fault,        \* the step the environment made fail during the last invocation
    posted,       \* wire id -> body of the POST that created it, until a PUT or DELETE names it
    deleted       \* wire ids whose DELETE answered 200

vars == <<table, nextId, dateType, notNull, request, response, raised,
          connOpened, connClosed, statements, fault, posted, deleted>>

----------------------------------------------------------------------------
\* Wire values

\* str(id) of a database key: its decimal digits.
RECURSIVE Str(_)
Str(n) == IF n < 10 THEN <<n>> ELSE Append(Str(n \div 10), n % 10)

\* A date text of the wire: "YYYY-MM-DD" (D), "YYYY-MM-DDT00:00:00" (T),
\* a text that is no date (bad), or None.
WireDate(day, fmt) == [day |-> day, fmt |-> fmt]
NoDate == WireDate(NullDate, "None")
BadDate == WireDate(NullDate, "bad")

\* An id of the wire: a text, or absent (None).
WireId(text) == [present |-> TRUE, text |-> text]
NoId == [present |-> FALSE, text |-> <<>>]

\* A parsed JSON object of a request body; a key that is missing reads None.
Dict(id, title, date, type, description, notificationEnabled) ==
    [id |-> id, title |-> title, date |-> date, type |-> type,
     description |-> description, notificationEnabled |-> notificationEnabled]
EmptyDict == Dict(NoId, None, NoDate, None, None, "absent")

\* The sample bodies of POST (and, with an id, of PUT).
FullPayload == Dict(NoId, "a", WireDate(1, "T"), "t", "d", "false")

Payloads ==
    { FullPayload,
      Dict(NoId, "b", WireDate(2, "D"), "u", None, "absent"),
      Dict(NoId, "b", BadDate, "t", None, "absent"),
      EmptyDict }

WithId(data, id) == [data EXCEPT !.id = id]

\* The ids a request can name: every key the storage can assign.
WireIds == { WireId(Str(i)) : i \in 1..MaxId }

\* The body entry of the event: missing, "", a text that is not JSON, or the
\* text of a JSON object.
AbsentBody == [kind |-> "absent", data |-> EmptyDict]
EmptyBody == [kind |-> "empty", data |-> EmptyDict]
InvalidBody == [kind |-> "invalid", data |-> EmptyDict]
ObjectBody(data) == [kind |-> "object", data |-> data]

\* The queryStringParameters entry of the event.
MissingParams == [kind |-> "missing", id |-> NoId]
NullParams == [kind |-> "null", id |-> NoId]
DictParams(id) == [kind |-> "dict", id |-> id]

Event(method, body, params) ==
    [httpMethod |-> method, body |-> body, queryStringParameters |-> params]

----------------------------------------------------------------------------
\* Responses

CorsHeaders ==
    { <<"Access-Control-Allow-Origin", "*">>,
      <<"Access-Control-Allow-Methods", "GET, POST, PUT, DELETE, OPTIONS">>,
      <<"Access-Control-Allow-Headers", "Content-Type">>,
      <<"Access-Control-Max-Age", "86400">> }

JsonHeaders ==
    { <<"Content-Type", "application/json">>,
      <<"Access-Control-Allow-Origin", "*">> }

\* A response body: '' (empty), {"error": e}, {"events": [...]}, an event
\* object (events holds it alone) or {"success": true}.
ResponseBody(kind, error, events) ==
    [kind |-> kind, error |-> error, events |-> events]

Response(statusCode, headers, body) ==
    [statusCode |-> statusCode, headers |-> headers, body |-> body]

ErrorResponse(statusCode, error) ==
    Response(statusCode, JsonHeaders, ResponseBody("error", error, <<>>))

NoResponse == Response(0, {}, ResponseBody("none", "", <<>>))

----------------------------------------------------------------------------
\* Outcome of a call: the response it returns or the exception it raises,
\* the table it leaves, and what it did with connections.

Returned(resp, tbl, nid, opened, closed, stmts) ==
    [raised |-> FALSE, error |-> "", resp |-> resp, tbl |-> tbl, nid |-> nid,
     opened |-> opened, closed |-> closed, stmts |-> stmts]

Raised(error, tbl, nid, opened, closed, stmts) ==
    [raised |-> TRUE, error |-> error, resp |-> NoResponse, tbl |-> tbl,
     nid |-> nid, opened |-> opened, closed |-> closed, stmts |-> stmts]

\* The step of a database call that the environment makes fail.
Faults == {"none", "connect", "execute", "commit", "serialize"}

----------------------------------------------------------------------------
\* The events table as the statements see it

\* Whether the storage accepts a text as a value of the event_date column.
DateValid(date) == date.fmt \in {"D", "T", "None"}

\* The stored value of a date text: its day (the sample texts are midnights).
ParseDate(date) == date.day

\* event_date.isoformat() of the value the driver returns for the column: a
\* datetime.date for a date column, a datetime.datetime for a timestamp one.
isoformat(day) == WireDate(day, IF dateType = "date" THEN "D" ELSE "T")

\* Mutant: the default of a missing notificationEnabled is False.
GetNotificationEnabled_DefaultFalse(data) == data.notificationEnabled = "true"

\* data.get('notificationEnabled', True)
GetNotificationEnabled(data) == data.notificationEnabled # "false"

\* Mutant: the description is not bound, the column is written NULL.
RowOf_NoDescription(data) ==
    [title |-> data.title,
     event_date |-> ParseDate(data.date),
     event_type |-> data.type,
     description |-> None,
     notification_enabled |-> GetNotificationEnabled(data)]

\* The column values the INSERT and the UPDATE bind.
RowOf(data) ==
    [title |-> data.title,
     event_date |-> ParseDate(data.date),
     event_type |-> data.type,
     description |-> data.description,
     notification_enabled |-> GetNotificationEnabled(data)]

\* Whether a row breaks the NOT NULL constraints of the table, if it has them.
ViolatesNotNull(row) ==
    notNull /\ (row.title = None \/ row.event_date = NullDate \/ row.event_type = None)

\* The rows that WHERE id = %s selects; a NULL parameter selects none.
Matching(tbl, id) == { i \in DOMAIN tbl : id.present /\ Str(i) = id.text }

\* The wire object built from a returned row.
WireEvent(id, row) ==
    [id |-> Str(id),
     title |-> row.title,
     date |-> isoformat(row.event_date),
     type |-> row.event_type,
     description |-> row.description,
     notificationEnabled |-> row.notification_enabled]

\* ORDER BY event_date ASC: NULLs come last, equal dates in any order.
DateLeq(a, b) == b = NullDate \/ (a # NullDate /\ a <= b)

Orders(tbl) ==
    { s \in [1..Cardinality(DOMAIN tbl) -> DOMAIN tbl] :
        /\ \A i, j \in DOMAIN s : i # j => s[i] # s[j]
        /\ \A i, j \in DOMAIN s : i < j => DateLeq(tbl[s[i]].event_date, tbl[s[j]].event_date) }

\* Mutant: the DELETE is never committed.
Remove_Nothing(tbl, ids) == tbl

Remove(tbl, ids) == [i \in DOMAIN tbl \ ids |-> tbl[i]]

----------------------------------------------------------------------------
\* The four operations

get_events(flt, order) ==
    IF flt = "connect"
    THEN Raised("could not connect to server", table, nextId, 0, 0, 0)
    ELSE IF flt = "execute"
    THEN Raised("statement failed", table, nextId, 1, 0, 1)
    ELSE IF flt = "serialize" \/ \E i \in DOMAIN table : table[i].event_date = NullDate
    THEN Raised("isoformat failed", table, nextId, 1, 1, 1)
    ELSE Returned(Response(200, JsonHeaders,
                           ResponseBody("events", "",
                                        [k \in DOMAIN order |-> WireEvent(order[k], table[order[k]])])),
                  table, nextId, 1, 1, 1)

create_event(data, flt) ==
    LET row == RowOf(data)
        tbl == table @@ (nextId :> row)
    IN  IF flt = "connect"
        THEN Raised("could not connect to server", table, nextId, 0, 0, 0)
        ELSE IF flt = "execute"
        THEN Raised("statement failed", table, nextId, 1, 0, 1)
        ELSE IF ~DateValid(data.date)
        THEN Raised("invalid input syntax", table, nextId, 1, 0, 1)
        ELSE IF ViolatesNotNull(row)
        THEN Raised("not-null violation", table, nextId, 1, 0, 1)
        ELSE IF flt = "commit"
        THEN Raised("commit failed", table, nextId, 1, 0, 1)
        ELSE IF flt = "serialize" \/ row.event_date = NullDate
        THEN Raised("isoformat failed", tbl, nextId + 1, 1, 1, 1)
        ELSE Returned(Response(201, JsonHeaders,
                               ResponseBody("event", "", <<WireEvent(nextId, row)>>)),
                      tbl, nextId + 1, 1, 1, 1)

\* Mutant: an UPDATE that matches no row inserts one (an upsert).
update_event_Upsert(data, flt) ==
    LET row == RowOf(data)
        ids == Matching(table, data.id)
        tbl == IF ids = {} /\ nextId <= MaxId
               THEN table @@ (nextId :> row)
               ELSE [i \in DOMAIN table |-> IF i \in ids THEN row ELSE table[i]]
    IN  IF flt = "connect"
        THEN Raised("could not connect to server", table, nextId, 0, 0, 0)
        ELSE IF flt = "execute"
        THEN Raised("statement failed", table, nextId, 1, 0, 1)
        ELSE IF ~DateValid(data.date)
        THEN Raised("invalid input syntax", table, nextId, 1, 0, 1)
        ELSE IF ViolatesNotNull(row)
        THEN Raised("not-null violation", table, nextId, 1, 0, 1)
        ELSE IF flt = "commit"
        THEN Raised("commit failed", table, nextId, 1, 0, 1)
        ELSE IF ids = {}
        THEN Returned(ErrorResponse(404, "Event not found"), tbl,
                      IF nextId <= MaxId THEN nextId + 1 ELSE nextId, 1, 1, 1)
        ELSE IF flt = "serialize" \/ row.event_date = NullDate
        THEN Raised("isoformat failed", tbl, nextId, 1, 1, 1)
        ELSE Returned(Response(200, JsonHeaders,
                               ResponseBody("event", "",
                                            <<WireEvent(CHOOSE i \in ids : TRUE, row)>>)),
                      tbl, nextId, 1, 1, 1)

update_event(data, flt) ==
    LET row == RowOf(data)
        ids == Matching(table, data.id)
        tbl == [i \in DOMAIN table |-> IF i \in ids THEN row ELSE table[i]]
    IN  IF flt = "connect"
        THEN Raised("could not connect to server", table, nextId, 0, 0, 0)
        ELSE IF flt = "execute"
        THEN Raised("statement failed", table, nextId, 1, 0, 1)
        ELSE IF ~DateValid(data.date)
        THEN Raised("invalid input syntax", table, nextId, 1, 0, 1)
        ELSE IF ids # {} /\ ViolatesNotNull(row)
        THEN Raised("not-null violation", table, nextId, 1, 0, 1)
        ELSE IF flt = "commit"
        THEN Raised("commit failed", table, nextId, 1, 0, 1)
        ELSE IF ids = {}
        THEN Returned(ErrorResponse(404, "Event not found"), tbl, nextId, 1, 1, 1)
        ELSE IF flt = "serialize" \/ row.event_date = NullDate
        THEN Raised("isoformat failed", tbl, nextId, 1, 1, 1)
        ELSE Returned(Response(200, JsonHeaders,
                               ResponseBody("event", "",
                                            <<WireEvent(CHOOSE i \in ids : TRUE, row)>>)),
                      tbl, nextId, 1, 1, 1)

delete_event(event_id, flt) ==
    LET ids == Matching(table, event_id)
        tbl == Remove(table, ids)
    IN  IF ~event_id.present \/ event_id.text = <<>>
        THEN Returned(ErrorResponse(400, "Event ID is required"), table, nextId, 0, 0, 0)
        ELSE IF flt = "connect"
        THEN Raised("could not connect to server", table, nextId, 0, 0, 0)
        ELSE IF flt = "execute"
        THEN Raised("statement failed", table, nextId, 1, 0, 1)
        ELSE IF flt = "commit"
        THEN Raised("commit failed", table, nextId, 1, 0, 1)
        ELSE IF ids = {}
        THEN Returned(ErrorResponse(404, "Event not found"), tbl, nextId, 1, 1, 1)
        ELSE Returned(Response(200, JsonHeaders, ResponseBody("success", "", <<>>)),
                      tbl, nextId, 1, 1, 1)

----------------------------------------------------------------------------
\* The handler

\* event.get('body', '{}'): the text of the empty object when the key is missing.
GetBody(event) ==
    IF event.body.kind = "absent" THEN ObjectBody(EmptyDict) ELSE event.body

\* json.loads: the object of a text that holds one, an error otherwise.
json_loads(text) == [ok |-> text.kind = "object", data |-> text.data]

\* event.get('queryStringParameters', {}): the empty dict when the key is missing.
GetParams(event) ==
    IF event.queryStringParameters.kind = "missing"
    THEN DictParams(NoId)
    ELSE event.queryStringParameters

\* event.get('httpMethod', 'GET')
GetMethod(event) == IF event.httpMethod = "absent" THEN "GET" ELSE event.httpMethod

\* The body of the try block.
Dispatch(event, flt, order) ==
    LET method == GetMethod(event) IN
    IF method = "GET" THEN get_events(flt, order)
    ELSE IF method = "POST" THEN
        LET body_data == json_loads(GetBody(event)) IN
        IF ~body_data.ok
        THEN Raised("JSONDecodeError", table, nextId, 0, 0, 0)
        ELSE create_event(body_data.data, flt)
    ELSE IF method = "PUT" THEN
        LET body_data == json_loads(GetBody(event)) IN
        IF ~body_data.ok
        THEN Raised("JSONDecodeError", table, nextId, 0, 0, 0)
        ELSE update_event(body_data.data, flt)
    ELSE IF method = "DELETE" THEN
        LET params == GetParams(event) IN
        IF params.kind = "null"
        THEN Raised("'NoneType' object has no attribute 'get'", table, nextId, 0, 0, 0)
        ELSE delete_event(params.id, flt)
    ELSE Returned(ErrorResponse(405, "Method not allowed"), table, nextId, 0, 0, 0)

\* Mutant: no except clause, the exception leaves the handler.
Catch_Reraise(result) == result

\* except Exception as e: the 500 response with str(e).
Catch(result) ==
    IF result.raised
    THEN [result EXCEPT !.raised = FALSE, !.resp = ErrorResponse(500, result.error)]
    ELSE result

\* Mutant: OPTIONS is not answered before the dispatch.
handler_NoPreflight(event, flt, order) == Catch(Dispatch(event, flt, order))

handler(event, flt, order) ==
    IF GetMethod(event) = "OPTIONS"
    THEN Returned(Response(200, CorsHeaders, ResponseBody("empty", "", <<>>)),
                  table, nextId, 0, 0, 0)
    ELSE Catch(Dispatch(event, flt, order))

----------------------------------------------------------------------------
\* The requests the model sends

PostBodies == {AbsentBody, EmptyBody, InvalidBody} \cup { ObjectBody(d) : d \in Payloads }

PutBodies ==
    {AbsentBody, EmptyBody, InvalidBody}
        \cup { ObjectBody(WithId(d, id)) : d \in Payloads, id \in WireIds }

DeleteParams ==
    {MissingParams, NullParams, DictParams(NoId), DictParams(WireId(<<>>))}
        \cup { DictParams(id) : id \in WireIds }

\* The faults tried on a request: every fault on the requests that send the
\* full payload or name an id to delete, none on the others.
FaultsOf(event) ==
    IF \/ event.httpMethod = "GET"
       \/ event.body.kind = "object" /\ WithId(event.body.data, NoId) = FullPayload
       \/ event.httpMethod = "DELETE" /\ event.queryStringParameters.id.text # <<>>
       \/ event.body.kind = "invalid" /\ event.httpMethod \in {"OPTIONS", "PATCH"}
    THEN Faults
    ELSE {"none"}

\* The wire id a PUT or a DELETE names.
NamedId(event) ==
    IF event.httpMethod = "PUT" THEN GetBody(event).data.id
    ELSE GetParams(event).id

Forget(f, id) == [k \in DOMAIN f \ {id.text} |-> f[k]]

----------------------------------------------------------------------------
\* The state machine: one step per invocation of the handler

Init ==
    /\ table = <<>>
    /\ nextId = 1
    /\ dateType \in {"date", "timestamp"}
    /\ notNull \in BOOLEAN
    /\ request = Event("", AbsentBody, MissingParams)
    /\ response = NoResponse
    /\ raised = FALSE
    /\ connOpened = 0
    /\ connClosed = 0
    /\ statements = 0
    /\ fault = "none"
    /\ posted = <<>>
    /\ deleted = {}

Invoke(event, flt, order) ==
    \E result \in {handler(event, flt, order)} :
    /\ table' = result.tbl
    /\ nextId' = result.nid
    /\ request' = event
    /\ response' = result.resp
    /\ raised' = result.raised
    /\ connOpened' = result.opened
    /\ connClosed' = result.closed
    /\ statements' = result.stmts
    /\ fault' = flt
    /\ UNCHANGED <<dateType, notNull>>

Options ==
    \E body \in {AbsentBody, InvalidBody}, params \in {MissingParams, NullParams} :
      \E flt \in FaultsOf(Event("OPTIONS", body, params)) \cap {"none", "connect"} :
        /\ Invoke(Event("OPTIONS", body, params), flt, <<>>)
        /\ UNCHANGED <<posted, deleted>>

Get ==
    \E method \in {"GET", "absent"}, order \in Orders(table) :
      \E flt \in FaultsOf(Event(method, AbsentBody, MissingParams)) \ {"commit"} :
        /\ Invoke(Event(method, AbsentBody, MissingParams), flt, order)
        /\ UNCHANGED <<posted, deleted>>

Post ==
    /\ nextId <= MaxId
    /\ \E body \in PostBodies :
        LET event == Event("POST", body, MissingParams) IN
        \E flt \in FaultsOf(event) :
        /\ Invoke(event, flt, <<>>)
        /\ posted' = IF response'.statusCode = 201
                     THEN posted @@ (response'.body.events[1].id :> GetBody(event).data)
                     ELSE posted
        /\ UNCHANGED deleted

Put ==
    \E body \in PutBodies :
        LET event == Event("PUT", body, MissingParams) IN
        \E flt \in FaultsOf(event) :
        /\ Invoke(event, flt, <<>>)
        /\ posted' = Forget(posted, NamedId(event))
        /\ UNCHANGED deleted

Delete ==
    \E params \in DeleteParams :
        LET event == Event("DELETE", AbsentBody, params) IN
        \E flt \in FaultsOf(event) \ {"serialize"} :
        /\ Invoke(event, flt, <<>>)
        /\ posted' = Forget(posted, NamedId(event))
        /\ deleted' = IF response'.statusCode = 200
                      THEN deleted \cup {NamedId(event).text}
                      ELSE deleted

Other ==
    \E body \in {AbsentBody, InvalidBody} :
      \E flt \in FaultsOf(Event("PATCH", body, MissingParams)) \cap {"none", "connect"} :
        /\ Invoke(Event("PATCH", body, MissingParams), flt, <<>>)
        /\ UNCHANGED <<posted, deleted>>

Next == Options \/ Get \/ Post \/ Put \/ Delete \/ Other

Spec == Init /\ [][Next]_vars

----------------------------------------------------------------------------
\* Vocabulary of the properties

\* Whether the body of a POST or PUT parses to a JSON object, and the object.
IsObject(event) == json_loads(GetBody(event)).ok
Data(event) == GetBody(event).data

\* title, date and type are present in the object.
HasRequired(data) == data.title # None /\ data.date # NoDate /\ data.type # None

\* The notificationEnabled a request asks for: true when it omits it.
WantedNotification(data) ==
    IF data.notificationEnabled = "absent" THEN TRUE ELSE data.notificationEnabled = "true"

\* The ids of the wire that the rows of a table have.
StoredIds(tbl) == { Str(i) : i \in DOMAIN tbl }

\* The rows of a table that a wire id names.
Named(tbl, id) == { i \in DOMAIN tbl : id.present /\ id.text = Str(i) }

IsGet(event) == event.httpMethod \in {"GET", "absent"}

\* A DELETE that carries a non-empty id.
DeleteWithId(event) ==
    /\ event.httpMethod = "DELETE"
    /\ event.queryStringParameters.kind = "dict"
    /\ event.queryStringParameters.id.present
    /\ event.queryStringParameters.id.text # <<>>

\* A DELETE that carries no id query parameter.
DeleteWithoutId(event) ==
    /\ event.httpMethod = "DELETE"
    /\ \/ event.queryStringParameters.kind \in {"missing", "null"}
       \/ ~event.queryStringParameters.id.present

----------------------------------------------------------------------------
\* C1

\* An item of a GET's list that shows a posted body; exact = the date text
\* is the posted one, otherwise it is the ISO-8601 text of the stored date.
Shows(item, id, data, exact) ==
    /\ item.id = id
    /\ item.title = data.title
    /\ item.type = data.type
    /\ item.description = data.description
    /\ item.notificationEnabled = WantedNotification(data)
    /\ IF exact
       THEN item.date = data.date
       ELSE /\ item.date.day = data.date.day
            /\ item.date.fmt = (IF dateType = "date" THEN "D" ELSE "T")

C1_IdIsNew ==
    /\ response'.body.kind = "event"
    /\ response'.body.events[1].id # <<>>
    /\ response'.body.events[1].id \notin StoredIds(table)

C1_GetShowsPosted(exact) ==
    \A id \in DOMAIN posted' :
        HasRequired(posted'[id]) =>
            \E k \in DOMAIN response'.body.events :
                Shows(response'.body.events[k], id, posted'[id], exact)

\* C1 as stated: every POST with title, date and type present answers 201 with
\* a new non-empty id, and a later GET (no PUT or DELETE of the id in between)
\* answers 200 and lists the event with exactly the posted values.
C1_Original ==
    [][ /\ (request'.httpMethod = "POST" /\ IsObject(request') /\ HasRequired(Data(request')))
            => (response'.statusCode = 201 /\ C1_IdIsNew)
        /\ IsGet(request') => (response'.statusCode = 200 /\ C1_GetShowsPosted(TRUE)) ]_vars

\* C1 amended: a POST with title, date and type present answers 201 or 500;
\* when a POST answers 201 its id is non-empty and differs from every stored
\* id; and a later GET that answers 200 (no PUT or DELETE of the id in between)
\* lists the event with the posted title, type, description and
\* notificationEnabled (true when omitted) and with the ISO-8601 text of the
\* stored date.
C1_PostThenGet ==
    [][ /\ (request'.httpMethod = "POST" /\ IsObject(request') /\ HasRequired(Data(request')))
            => response'.statusCode \in {201, 500}
        /\ (request'.httpMethod = "POST" /\ response'.statusCode = 201) => C1_IdIsNew
        /\ (IsGet(request') /\ response'.statusCode = 200) => C1_GetShowsPosted(FALSE) ]_vars

\* A GET answered 200 while an event posted without notificationEnabled is
\* still as posted.
C1_Witness ==
    /\ IsGet(request)
    /\ response.statusCode = 200
    /\ \E id \in DOMAIN posted : posted[id].notificationEnabled = "absent"

----------------------------------------------------------------------------
\* C2

C2_Case ==
    /\ request'.httpMethod = "PUT"
    /\ IsObject(request')
    /\ Named(table, Data(request').id) # {}

C2_RowWritten ==
    \A i \in Named(table, Data(request').id) :
        /\ i \in DOMAIN table'
        /\ table'[i].title = Data(request').title
        /\ table'[i].event_date = Data(request').date.day
        /\ table'[i].event_type = Data(request').type
        /\ table'[i].description = Data(request').description
        /\ table'[i].notification_enabled = WantedNotification(Data(request'))

C2_OthersKept ==
    /\ DOMAIN table' = DOMAIN table
    /\ \A i \in DOMAIN table \ Named(table, Data(request').id) : table'[i] = table[i]

\* C2 as stated: every PUT that names a stored row answers 200, writes the
\* request's fields into that row and changes no other row and no id.
C2_Original ==
    [][ C2_Case => (response'.statusCode = 200 /\ C2_RowWritten /\ C2_OthersKept) ]_vars

\* C2 amended: a PUT that names a stored row answers 200 or 500; when it
\* answers 200 the row holds the request's title, date, type, description and
\* notificationEnabled (true when omitted); whatever it answers, every other
\* row and the set of stored ids are unchanged.
C2_PutWritesOneRow ==
    [][ C2_Case => /\ response'.statusCode \in {200, 500}
                   /\ response'.statusCode = 200 => C2_RowWritten
                   /\ C2_OthersKept ]_vars

\* A PUT answered 200 on a table of two rows, with a description to write.
C2_Witness ==
    /\ request.httpMethod = "PUT"
    /\ response.statusCode = 200
    /\ Cardinality(DOMAIN table) = 2
    /\ request.body.data.description # None

----------------------------------------------------------------------------
\* C3

C3_Named == Named(table, request'.queryStringParameters.id)

C3_TableKept == table' = table

C3_RowRemoved ==
    /\ DOMAIN table' = DOMAIN table \ C3_Named
    /\ \A i \in DOMAIN table' : table'[i] = table[i]

C3_GetHidesDeleted ==
    IsGet(request') =>
        \A k \in DOMAIN response'.body.events : response'.body.events[k].id \notin deleted'

\* C3 as stated: a DELETE with a non-empty id answers 404 "Event not found"
\* and keeps the table when no row has the id, and otherwise answers 200 with
\* success, removes exactly that row, and no later GET lists the id.
C3_Original ==
    [][ /\ (DeleteWithId(request') /\ C3_Named = {})
            => /\ response'.statusCode = 404
               /\ response'.body.error = "Event not found"
               /\ C3_TableKept
        /\ (DeleteWithId(request') /\ C3_Named # {})
            => /\ response'.statusCode = 200
               /\ response'.body.kind = "success"
               /\ C3_RowRemoved
        /\ C3_GetHidesDeleted ]_vars

\* C3 amended: a DELETE with a non-empty id that no row has answers 404
\* "Event not found" or 500 and keeps the table; one that a row has answers
\* 200 or 500, and when it answers 200 (success true) exactly that row is
\* removed and no later GET lists the id.
C3_DeleteRemoves ==
    [][ /\ (DeleteWithId(request') /\ C3_Named = {})
            => /\ response'.statusCode \in {404, 500}
               /\ response'.statusCode = 404 => response'.body.error = "Event not found"
               /\ C3_TableKept
        /\ (DeleteWithId(request') /\ C3_Named # {})
            => /\ response'.statusCode \in {200, 500}
               /\ response'.statusCode = 200
                    => (response'.body.kind = "success" /\ C3_RowRemoved)
        /\ C3_GetHidesDeleted ]_vars

\* A GET that lists a remaining row after a DELETE answered 200.
C3_Witness ==
    /\ IsGet(request)
    /\ response.statusCode = 200
    /\ deleted # {}
    /\ Len(response.body.events) > 0

----------------------------------------------------------------------------
\* C4

C4_Case ==
    /\ request'.httpMethod = "PUT"
    /\ IsObject(request')
    /\ Named(table, Data(request').id) = {}

\* C4 as stated: every PUT whose id matches no row answers 404
\* {"error": "Event not found"} and leaves the table as it was.
C4_Original ==
    [][ C4_Case => /\ response'.statusCode = 404
                   /\ response'.body.error = "Event not found"
                   /\ table' = table ]_vars

\* C4 amended: a PUT whose id matches no row answers 404
\* {"error": "Event not found"} or 500, and in both cases the table holds
\* exactly the rows it held (none is created, none is changed).
C4_PutMissingKeepsTable ==
    [][ C4_Case => /\ response'.statusCode \in {404, 500}
                   /\ response'.statusCode = 404
                        => (response'.body.kind = "error"
                            /\ response'.body.error = "Event not found")
                   /\ table' = table ]_vars

\* A PUT with valid fields answered 404 while the table holds a row and the
\* storage could still assign an id.
C4_Witness ==
    /\ request.httpMethod = "PUT"
    /\ response.statusCode = 404
    /\ request.body.kind = "object"
    /\ request.body.data.id.present
    /\ table # <<>>
    /\ nextId <= MaxId

----------------------------------------------------------------------------
\* C5

\* C5 as stated: a DELETE without an id parameter (queryStringParameters
\* missing, null, empty or without the key) answers 400
\* {"error": "Event ID is required"}, opens no connection and keeps the table.
C5_Claim ==
    [][ DeleteWithoutId(request')
            => /\ response'.statusCode = 400
               /\ response'.body.error = "Event ID is required"
               /\ connOpened' = 0
               /\ table' = table ]_vars

----------------------------------------------------------------------------
\* C6

C6_ParseFails(event) ==
    event.httpMethod \in {"POST", "PUT"} /\ event.body.kind \in {"empty", "invalid"}

C6_ReachesDb(event) ==
    \/ IsGet(event)
    \/ event.httpMethod \in {"POST", "PUT"} /\ ~C6_ParseFails(event)
    \/ DeleteWithId(event)

\* A step of the invocation failed: the body did not parse, or the database
\* call was reached and the connection, the statement, the commit or the
\* building of the result failed.
C6_Failed ==
    \/ C6_ParseFails(request)
    \/ /\ C6_ReachesDb(request)
       /\ \/ fault \in {"connect", "execute"}
          \/ fault = "commit" /\ ~IsGet(request)
          \/ fault = "serialize" /\ (IsGet(request) \/ request.httpMethod = "POST")

\* C6: a request that is not OPTIONS always gets a response, no exception
\* leaves the handler, the status is one of 200, 201, 400, 404, 405, 500, and
\* when a step failed the status is 500 and the body carries an error.
C6_NoEscape ==
    (request.httpMethod # "" /\ request.httpMethod # "OPTIONS")
        => /\ ~raised
           /\ response.statusCode \in {200, 201, 400, 404, 405, 500}
           /\ C6_Failed => /\ response.statusCode = 500
                           /\ response.body.kind = "error"
                           /\ response.body.error # ""

\* A POST whose commit failed and was answered 500.
C6_Witness ==
    /\ request.httpMethod = "POST"
    /\ fault = "commit"
    /\ response.statusCode = 500
    /\ response.body.error = "commit failed"

----------------------------------------------------------------------------
\* C7

\* C7 as stated: a POST or PUT whose body is absent or "" is handled as the
\* same request with body {}: same response, same table, no parsing failure.
C7_Claim ==
    [][ (request'.httpMethod \in {"POST", "PUT"} /\ request'.body.kind \in {"absent", "empty"})
            => /\ response'.body.error # "JSONDecodeError"
               /\ response' = handler(Event(request'.httpMethod, ObjectBody(EmptyDict),
                                            request'.queryStringParameters),
                                      fault', <<>>).resp
               /\ table' = handler(Event(request'.httpMethod, ObjectBody(EmptyDict),
                                         request'.queryStringParameters),
                                   fault', <<>>).tbl ]_vars

----------------------------------------------------------------------------
\* C8

\* C8 as stated: an invocation that reaches the database has opened exactly
\* one connection, issued exactly one statement and closed the connection by
\* the time it returns, on every exit path.
C8_Claim ==
    /\ connOpened <= 1
    /\ connOpened = 1 => (statements = 1 /\ connClosed = connOpened)

----------------------------------------------------------------------------
\* C9

\* C9: an OPTIONS request, whatever its body and parameters and whether or
\* not the database is reachable, answers 200 with an empty body and the four
\* CORS headers, opens no connection and keeps the table.
C9_Options ==
    [][ request'.httpMethod = "OPTIONS"
            => /\ response'.statusCode = 200
               /\ response'.body.kind = "empty"
               /\ response'.headers =
                    { <<"Access-Control-Allow-Origin", "*">>,
                      <<"Access-Control-Allow-Methods", "GET, POST, PUT, DELETE, OPTIONS">>,
                      <<"Access-Control-Allow-Headers", "Content-Type">>,
                      <<"Access-Control-Max-Age", "86400">> }
               /\ connOpened' = 0
               /\ statements' = 0
               /\ table' = table ]_vars

\* An OPTIONS request with a body that is no JSON, null parameters and an
\* unreachable database, on a table that holds a row.
C9_Witness ==
    /\ request.httpMethod = "OPTIONS"
    /\ request.body.kind = "invalid"
    /\ request.queryStringParameters.kind = "null"
    /\ fault = "connect"
    /\ response.statusCode = 200
    /\ table # <<>>

----------------------------------------------------------------------------
\* C10

\* C10 as stated: when a POST, PUT or DELETE answers 500 the table holds the
\* rows it held before the invocation.
C10_Claim ==
    [][ (request'.httpMethod \in {"POST", "PUT", "DELETE"} /\ response'.statusCode = 500)
            => table' = table ]_vars

====
